---- MODULE Spec2Model ----
(***************************************************************************)
(* Model of src/src/compose/config_convert.go (rocker-compose): the        *)
(* extraction of a ConfigContainer from a docker container's labels        *)
(* (NewContainerConfigFromDocker, NewContainerFromDocker) and the two      *)
(* projections of a ConfigContainer into the docker create-container       *)
(* request (GetApiConfig, GetApiHostConfig).                               *)
(*                                                                         *)
(* Go values are represented as follows.                                   *)
(*   string            a TLA+ string                                       *)
(*   *T, []T, map      NIL (the empty tuple) when nil, <<v>> otherwise;    *)
(*                     a slice's v is a sequence, a map's v a function,    *)
(*                     a map[K]struct{} 's v a set                         *)
(*   map[string]string of labels: a reference, NIL or <<a>> with a an      *)
(*                     index into heap, so that aliasing is visible        *)
(*   error             NIL or <<message>>                                  *)
(*   a call's result   carries panic = TRUE when the call aborted          *)
(***************************************************************************)
EXTENDS Integers, Sequences, FiniteSets, Bags, TLC

VARIABLES
    config,        \* the ConfigContainer handed to the two builders
    apiConfig,     \* result of config.GetApiConfig(), NIL before the call
    hostConfig,    \* result of config.GetApiHostConfig(), NIL before the call
    apiContainer,  \* the *docker.Container handed to the extraction
    heap,          \* the label maps allocated so far, by address
    extracted,     \* result of NewContainerConfigFromDocker, NIL before the call
    assembled      \* result of NewContainerFromDocker, NIL before the call

vars == <<config, apiConfig, hostConfig, apiContainer, heap, extracted, assembled>>

\* Bounds of the model.
MaxVolumes == 3
MaxPorts == 3
MaxList == 2
MaxLabels == 2

-----------------------------------------------------------------------------
\* Go values

NIL == <<>>

Ptr(v) == <<v>>

\* The elements a range loop over a (possibly nil) slice visits.
Elems(s) == IF s = NIL THEN <<>> ELSE s[1]

Range(seq) == {seq[i] : i \in 1..Len(seq)}

SeqsUpTo(S, n) == UNION {[1..k -> S] : k \in 0..n}

RECURSIVE SetToSeqs(_)
SetToSeqs(S) ==
    IF S = {} THEN {<<>>}
    ELSE UNION {{<<x>> \o t : t \in SetToSeqs(S \ {x})} : x \in S}

\* strings.Contains(s, substr)
Contains(s, substr) ==
    \E i \in 1..(Len(s) - Len(substr) + 1) : SubSeq(s, i, i + Len(substr) - 1) = substr

\* strings.HasPrefix(s, prefix)
HasPrefix(s, prefix) ==
    Len(s) >= Len(prefix) /\ SubSeq(s, 1, Len(prefix)) = prefix

\* fmt.Sprintf("%s=%s", key, val)
SprintfEnv(key, val) == key \o "=" \o val

\* m[k] = v on a Go map held in field f of the struct s: a write to a nil
\* map panics.
MapStore(s, f, k, v) ==
    IF s[f] = NIL THEN [s EXCEPT !.panic = TRUE]
    ELSE [s EXCEPT ![f] = <<[x \in (DOMAIN s[f][1]) \cup {k} |->
                               IF x = k THEN v ELSE s[f][1][x]]>>]

\* _, ok := m[k]
MapHas(m, k) == m # NIL /\ k \in DOMAIN m[1]

\* m[k], the zero value (a nil slice) when the key is missing
MapGet(m, k) == IF MapHas(m, k) THEN m[1][k] ELSE <<>>

-----------------------------------------------------------------------------
\* Collaborators of config_convert.go defined elsewhere in the package

\* (*ConfigMemory).Int64: the quantity's byte count, a nil receiver resolves
\* to the untouched value 0.
Int64(m) == IF m = NIL THEN 0 ELSE m[1]

\* (*RestartPolicy).ToDockerApi
ToDockerApi(r) ==
    IF r = NIL THEN [Name |-> "", MaximumRetryCount |-> 0]
    ELSE [Name |-> r[1].Name, MaximumRetryCount |-> r[1].MaximumRetryCount]

\* ContainerName.String
ContainerNameString(n) ==
    IF n.Namespace = "" THEN n.Name ELSE n.Namespace \o "." \o n.Name

\* Link.String
LinkString(l) ==
    ContainerNameString([Namespace |-> l.Namespace, Name |-> l.Name]) \o ":" \o l.Alias

NewImageNameFromString(s) == [ImageName |-> s]

NewContainerNameFromString(s) == [ContainerName |-> s]

-----------------------------------------------------------------------------
\* The zero values of the structs

ZeroConfigContainer ==
    [Image |-> NIL, Cmd |-> NIL, Entrypoint |-> NIL, Hostname |-> NIL,
     Domainname |-> NIL, Workdir |-> NIL, User |-> NIL, Memory |-> NIL,
     MemorySwap |-> NIL, CpusetCpus |-> NIL, CpuShares |-> NIL,
     NetworkDisabled |-> NIL, Expose |-> NIL, Env |-> NIL, Volumes |-> NIL,
     Dns |-> NIL, AddHost |-> NIL, Restart |-> NIL, Net |-> NIL, Pid |-> NIL,
     Privileged |-> NIL, PublishAllPorts |-> NIL, Ports |-> NIL, Links |-> NIL,
     VolumesFrom |-> NIL, Ulimits |-> NIL, Labels |-> NIL]

ZeroDockerConfig ==
    [panic |-> FALSE, Entrypoint |-> NIL, Labels |-> NIL, Cmd |-> NIL,
     Image |-> "", Hostname |-> "", Domainname |-> "", WorkingDir |-> "",
     User |-> "", Memory |-> 0, MemorySwap |-> 0, CPUSet |-> "",
     CPUShares |-> 0, NetworkDisabled |-> FALSE, ExposedPorts |-> NIL,
     Env |-> NIL, Volumes |-> NIL]

ZeroDockerHostConfig ==
    [panic |-> FALSE, DNS |-> NIL, ExtraHosts |-> NIL,
     RestartPolicy |-> [Name |-> "", MaximumRetryCount |-> 0],
     Memory |-> 0, MemorySwap |-> 0, NetworkMode |-> "", PidMode |-> "",
     CPUSet |-> "", Binds |-> NIL, Privileged |-> FALSE,
     PublishAllPorts |-> FALSE, PortBindings |-> NIL, Links |-> NIL,
     VolumesFrom |-> NIL, Ulimits |-> NIL]

\* *p stored into field f of s: a nil p panics.
StoreDeref(s, f, p) ==
    IF p = NIL THEN [s EXCEPT !.panic = TRUE] ELSE [s EXCEPT ![f] = p[1]]

\* if p != nil { s.f = *p }
CopyIfSet(s, f, p) == IF p # NIL THEN StoreDeref(s, f, p) ELSE s

-----------------------------------------------------------------------------
\* (config *ConfigContainer) GetApiConfig

\* "Copy simple values": the struct literal and the guarded copies.
ApiSimpleValues(c) ==
    LET s0 == [ZeroDockerConfig EXCEPT !.Entrypoint = c.Entrypoint,
                                       !.Labels = c.Labels]
        s1 == IF c.Cmd # NIL THEN [s0 EXCEPT !.Cmd = c.Cmd[1].Parts] ELSE s0
        s2 == CopyIfSet(s1, "Image", c.Image)
        s3 == CopyIfSet(s2, "Hostname", c.Hostname)
        s4 == CopyIfSet(s3, "Domainname", c.Domainname)
        s5 == CopyIfSet(s4, "WorkingDir", c.Workdir)
        s6 == CopyIfSet(s5, "User", c.User)
        s7 == IF c.Memory # NIL THEN [s6 EXCEPT !.Memory = Int64(c.Memory)] ELSE s6
        s8 == IF c.MemorySwap # NIL
              THEN [s7 EXCEPT !.MemorySwap = Int64(c.MemorySwap)] ELSE s7
        s9 == CopyIfSet(s8, "CPUSet", c.CpusetCpus)
        s10 == CopyIfSet(s9, "CPUShares", c.CpuShares)
    IN  CopyIfSet(s10, "NetworkDisabled", c.NetworkDisabled)

\* "expose": a presence-only set of the declared ports.
ApiExpose(s, c) ==
    IF c.Expose # NIL
    THEN [s EXCEPT !.ExposedPorts = <<Range(c.Expose[1])>>]
    ELSE s

RECURSIVE EnvLoop(_, _, _)
EnvLoop(env, keys, acc) ==
    IF keys = <<>> THEN acc
    ELSE EnvLoop(env, Tail(keys), Append(acc, SprintfEnv(Head(keys), env[Head(keys)])))

\* "env": keys is the order in which range visits the map.
ApiEnv_NoGuard(s, c, keys) ==
    [s EXCEPT !.Env = <<EnvLoop(IF c.Env # NIL THEN c.Env[1] ELSE <<>>, keys, <<>>)>>]

ApiEnv(s, c, keys) ==
    IF c.Env # NIL
    THEN [s EXCEPT !.Env = <<EnvLoop(c.Env[1], keys, <<>>)>>]
    ELSE s

RECURSIVE HostVolumesLoop(_, _)
HostVolumesLoop(volumes, acc) ==
    IF volumes = <<>> THEN acc
    ELSE HostVolumesLoop(Tail(volumes),
                         IF ~Contains(Head(volumes), ":")
                         THEN acc \cup {Head(volumes)} ELSE acc)

\* "volumes"
ApiVolumes(s, c) ==
    IF c.Volumes # NIL
    THEN LET hostVolumes == HostVolumesLoop(c.Volumes[1], {})
         IN  IF Cardinality(hostVolumes) > 0
             THEN [s EXCEPT !.Volumes = <<hostVolumes>>]
             ELSE s
    ELSE s

GetApiConfig(c, keys) ==
    ApiVolumes(ApiEnv(ApiExpose(ApiSimpleValues(c), c), c, keys), c)

-----------------------------------------------------------------------------
\* (config *ConfigContainer) GetApiHostConfig

\* The struct literal.
HostInit_SwapFromMemory(c) ==
    [ZeroDockerHostConfig EXCEPT !.DNS = c.Dns,
                                 !.ExtraHosts = c.AddHost,
                                 !.RestartPolicy = ToDockerApi(c.Restart),
                                 !.Memory = Int64(c.Memory),
                                 !.MemorySwap = Int64(c.Memory)]

HostInit(c) ==
    [ZeroDockerHostConfig EXCEPT !.DNS = c.Dns,
                                 !.ExtraHosts = c.AddHost,
                                 !.RestartPolicy = ToDockerApi(c.Restart),
                                 !.Memory = Int64(c.Memory),
                                 !.MemorySwap = Int64(c.MemorySwap)]

\* Net, Pid, CpusetCpus
HostModes_PidFromNet(s, c) ==
    LET s1 == CopyIfSet(s, "NetworkMode", c.Net)
        s2 == CopyIfSet(s1, "PidMode", c.Net)
    IN  CopyIfSet(s2, "CPUSet", c.CpusetCpus)

HostModes(s, c) ==
    LET s1 == CopyIfSet(s, "NetworkMode", c.Net)
        s2 == CopyIfSet(s1, "PidMode", c.Pid)
    IN  CopyIfSet(s2, "CPUSet", c.CpusetCpus)

RECURSIVE BindsLoop(_, _)
BindsLoop(volumes, binds) ==
    IF volumes = <<>> THEN binds
    ELSE BindsLoop(Tail(volumes),
                   IF Contains(Head(volumes), ":")
                   THEN Append(binds, Head(volumes)) ELSE binds)

\* "Binds"
HostBinds_NoFilter(s, c) ==
    LET binds == Elems(c.Volumes)
    IN  IF Len(binds) > 0 THEN [s EXCEPT !.Binds = <<binds>>] ELSE s

HostBinds(s, c) ==
    LET binds == BindsLoop(Elems(c.Volumes), <<>>)
    IN  IF Len(binds) > 0 THEN [s EXCEPT !.Binds = <<binds>>] ELSE s

\* "Privileged", "PublishAllPorts"
HostFlags(s, c) ==
    CopyIfSet(CopyIfSet(s, "Privileged", c.Privileged),
              "PublishAllPorts", c.PublishAllPorts)

PortBinding(configPort) ==
    [HostIP |-> configPort.HostIp, HostPort |-> configPort.HostPort]

RECURSIVE PortBindingsLoop(_, _)
PortBindingsLoop(s, ports) ==
    IF ports = <<>> THEN s
    ELSE LET key == Head(ports).Port
             binding == PortBinding(Head(ports))
             s1 == IF ~MapHas(s.PortBindings, key)
                   THEN MapStore(s, "PortBindings", key, <<>>) ELSE s
             s2 == MapStore(s1, "PortBindings", key,
                            Append(MapGet(s1.PortBindings, key), binding))
         IN  PortBindingsLoop(s2, Tail(ports))

RECURSIVE PortBindingsLoop_Overwrite(_, _)
PortBindingsLoop_Overwrite(s, ports) ==
    IF ports = <<>> THEN s
    ELSE PortBindingsLoop_Overwrite(
             MapStore(s, "PortBindings", Head(ports).Port, <<PortBinding(Head(ports))>>),
             Tail(ports))

\* "PortBindings"
HostPortBindings_Overwrite(s, c) ==
    IF Len(Elems(c.Ports)) > 0
    THEN PortBindingsLoop_Overwrite([s EXCEPT !.PortBindings = <<<<>>>>], Elems(c.Ports))
    ELSE s

HostPortBindings_NoMake(s, c) ==
    IF Len(Elems(c.Ports)) > 0
    THEN PortBindingsLoop(s, Elems(c.Ports))
    ELSE s

HostPortBindings(s, c) ==
    IF Len(Elems(c.Ports)) > 0
    THEN PortBindingsLoop([s EXCEPT !.PortBindings = <<<<>>>>], Elems(c.Ports))
    ELSE s

\* "Links"
HostLinks(s, c) ==
    IF Len(Elems(c.Links)) > 0
    THEN [s EXCEPT !.Links =
             <<[i \in 1..Len(c.Links[1]) |-> LinkString(c.Links[1][i])]>>]
    ELSE s

\* "VolumesFrom"
HostVolumesFrom(s, c) ==
    IF Len(Elems(c.VolumesFrom)) > 0
    THEN [s EXCEPT !.VolumesFrom =
             <<[i \in 1..Len(c.VolumesFrom[1]) |-> ContainerNameString(c.VolumesFrom[1][i])]>>]
    ELSE s

\* "Ulimits"
HostUlimits_SwapSoftHard(s, c) ==
    IF Len(Elems(c.Ulimits)) > 0
    THEN [s EXCEPT !.Ulimits =
             <<[i \in 1..Len(c.Ulimits[1]) |->
                  [Name |-> c.Ulimits[1][i].Name,
                   Soft |-> c.Ulimits[1][i].Hard,
                   Hard |-> c.Ulimits[1][i].Soft]]>>]
    ELSE s

HostUlimits(s, c) ==
    IF Len(Elems(c.Ulimits)) > 0
    THEN [s EXCEPT !.Ulimits =
             <<[i \in 1..Len(c.Ulimits[1]) |->
                  [Name |-> c.Ulimits[1][i].Name,
                   Soft |-> c.Ulimits[1][i].Soft,
                   Hard |-> c.Ulimits[1][i].Hard]]>>]
    ELSE s

GetApiHostConfig(c) ==
    HostUlimits(HostVolumesFrom(HostLinks(HostPortBindings(HostFlags(
        HostBinds(HostModes(HostInit(c), c), c), c), c), c), c), c)

-----------------------------------------------------------------------------
\* yaml.Unmarshal([]byte(yamlData), container), on the block-style subset
\*     image: <scalar>
\*     hostname: <scalar>
\*     labels:
\*       <key>: <value>
\* Keys the struct does not declare are skipped, as the decoder does.

\* The first index of substr in s, 0 when there is none.
Index(s, substr) ==
    IF Contains(s, substr)
    THEN CHOOSE i \in 1..(Len(s) - Len(substr) + 1) :
             /\ SubSeq(s, i, i + Len(substr) - 1) = substr
             /\ \A j \in 1..(i - 1) : SubSeq(s, j, j + Len(substr) - 1) # substr
    ELSE 0

RECURSIVE SplitLines(_)
SplitLines(s) ==
    IF s = "" THEN <<>>
    ELSE LET i == Index(s, "\n")
         IN  IF i = 0 THEN <<s>>
             ELSE <<SubSeq(s, 1, i - 1)>> \o SplitLines(SubSeq(s, i + 1, Len(s)))

YamlKey(line) == SubSeq(line, 1, Index(line, ": ") - 1)

YamlValue(line) == SubSeq(line, Index(line, ": ") + 2, Len(line))

\* One line of the document. st = [err, container, heap, inLabels, line].
UnmarshalLine(st, text) ==
    LET n == ToString(st.line)
        next == [st EXCEPT !.line = st.line + 1]
    IN  IF st.err # NIL THEN st
        ELSE IF HasPrefix(text, "  ")
        THEN LET entry == SubSeq(text, 3, Len(text))
             IN  IF ~st.inLabels
                 THEN [next EXCEPT !.err =
                          <<"yaml: line " \o n \o ": mapping values are not allowed in this context">>]
                 ELSE IF ~Contains(entry, ": ")
                 THEN [next EXCEPT !.err =
                          <<"yaml: line " \o n \o ": could not find expected ':'">>]
                 ELSE LET a == st.container.Labels[1]
                          m == st.heap[a]
                          k == YamlKey(entry)
                      IN  [next EXCEPT !.heap[a] =
                              [x \in (DOMAIN m) \cup {k} |->
                                  IF x = k THEN YamlValue(entry) ELSE m[x]]]
        ELSE IF text = "labels:"
        THEN [next EXCEPT !.inLabels = TRUE,
                          !.heap = Append(st.heap, <<>>),
                          !.container.Labels = <<Len(st.heap) + 1>>]
        ELSE IF ~Contains(text, ": ")
        THEN [next EXCEPT !.err =
                 <<"yaml: line " \o n \o ": could not find expected ':'">>]
        ELSE LET k == YamlKey(text)
                 v == YamlValue(text)
                 top == [next EXCEPT !.inLabels = FALSE]
             IN  IF k = "image" THEN [top EXCEPT !.container.Image = <<v>>]
                 ELSE IF k = "hostname" THEN [top EXCEPT !.container.Hostname = <<v>>]
                 ELSE top

RECURSIVE UnmarshalLines(_, _)
UnmarshalLines(st, lines) ==
    IF lines = <<>> THEN st
    ELSE UnmarshalLines(UnmarshalLine(st, Head(lines)), Tail(lines))

\* The result is [err, container, heap]: the error, the struct filled in
\* and the heap with the label map the decoder allocated.
Unmarshal(yamlData, container, h) ==
    LET st == UnmarshalLines([err |-> NIL, container |-> container, heap |-> h,
                              inLabels |-> FALSE, line |-> 1],
                             SplitLines(yamlData))
    IN  [err |-> st.err, container |-> st.container, heap |-> st.heap]

-----------------------------------------------------------------------------
\* NewContainerConfigFromDocker

ConfigLabel == "rocker-compose-config"

LabelPrefix == "rocker-compose-"

ErrConfigMissing ==
    "Expecting container to have label 'rocker-compose-config' to parse it"

\* fmt.Errorf("Failed to parse YAML config for container %s, error: %s", ...)
ErrConfigParse(name, cause) ==
    "Failed to parse YAML config for container " \o name \o ", error: " \o cause

\* The map a label reference points to; a nil map reads as empty.
LabelsOf(h, ref) == IF ref = NIL THEN <<>> ELSE h[ref[1]]

\* if labels != nil { for k := range labels { if HasPrefix(k, prefix) {
\* delete(labels, k) } } }: deleting the visited key during range is safe, and
\* every key is visited whatever the order.
CleanupLabels_ExactKey(h, labels) ==
    IF labels # NIL
    THEN [h EXCEPT ![labels[1]] =
             [k \in {x \in DOMAIN h[labels[1]] : x # ConfigLabel} |-> h[labels[1]][k]]]
    ELSE h

CleanupLabels(h, labels) ==
    IF labels # NIL
    THEN [h EXCEPT ![labels[1]] =
             [k \in {x \in DOMAIN h[labels[1]] : ~HasPrefix(x, LabelPrefix)} |->
                 h[labels[1]][k]]]
    ELSE h

\* The result is [ret, err, heap].
NewContainerConfigFromDocker_CleansDescriptor(c, h) ==
    LET labels == LabelsOf(h, c.Config.Labels)
    IN  IF ConfigLabel \notin DOMAIN labels
        THEN [ret |-> NIL, err |-> <<ErrConfigMissing>>, heap |-> h]
        ELSE LET u == Unmarshal(labels[ConfigLabel], ZeroConfigContainer, h)
             IN  IF u.err # NIL
                 THEN [ret |-> NIL, err |-> <<ErrConfigParse(c.Name, u.err[1])>>,
                       heap |-> u.heap]
                 ELSE [ret |-> <<u.container>>, err |-> NIL,
                       heap |-> CleanupLabels(u.heap, c.Config.Labels)]

NewContainerConfigFromDocker(c, h) ==
    LET labels == LabelsOf(h, c.Config.Labels)
    IN  IF ConfigLabel \notin DOMAIN labels
        THEN [ret |-> NIL, err |-> <<ErrConfigMissing>>, heap |-> h]
        ELSE LET u == Unmarshal(labels[ConfigLabel], ZeroConfigContainer, h)
             IN  IF u.err # NIL
                 THEN [ret |-> NIL, err |-> <<ErrConfigParse(c.Name, u.err[1])>>,
                       heap |-> u.heap]
                 ELSE [ret |-> <<u.container>>, err |-> NIL,
                       heap |-> CleanupLabels(u.heap, u.container.Labels)]

-----------------------------------------------------------------------------
\* NewContainerFromDocker

\* The Container literal.
NewContainer(dockerContainer, cfg) ==
    [Id |-> dockerContainer.ID,
     Image |-> NewImageNameFromString(dockerContainer.Config.Image),
     ImageId |-> dockerContainer.Image,
     Name |-> NewContainerNameFromString(dockerContainer.Name),
     Created |-> dockerContainer.Created,
     State |-> <<[Running |-> dockerContainer.State.Running,
                  Paused |-> dockerContainer.State.Paused,
                  Restarting |-> dockerContainer.State.Restarting,
                  OOMKilled |-> dockerContainer.State.OOMKilled,
                  Pid |-> dockerContainer.State.Pid,
                  ExitCode |-> dockerContainer.State.ExitCode,
                  Error |-> dockerContainer.State.Error,
                  StartedAt |-> dockerContainer.State.StartedAt,
                  FinishedAt |-> dockerContainer.State.FinishedAt]>>,
     Config |-> cfg,
     container |-> dockerContainer]

NewContainerFromDocker_PartialOnError(dockerContainer, h) ==
    LET r == NewContainerConfigFromDocker(dockerContainer, h)
    IN  [ret |-> <<NewContainer(dockerContainer, r.ret)>>, err |-> r.err, heap |-> r.heap]

NewContainerFromDocker(dockerContainer, h) ==
    LET r == NewContainerConfigFromDocker(dockerContainer, h)
    IN  IF r.err # NIL
        THEN [ret |-> NIL, err |-> r.err, heap |-> r.heap]
        ELSE [ret |-> <<NewContainer(dockerContainer, r.ret)>>, err |-> NIL,
              heap |-> r.heap]

-----------------------------------------------------------------------------
\* The ConfigContainer values the builders are applied to.  Each family
\* varies one group of fields and leaves the others nil.

VolumeStrings == {"/data", "cache", "/host:/data", "/etc/app:/etc/app:ro"}

PortStrings == {"80/tcp", "53/udp"}

HostPortStrings == {"8080", "8081"}

ConfigPorts ==
    [Port : PortStrings, HostIp : {"0.0.0.0"}, HostPort : HostPortStrings]

EnvKeys == {"A", "B", "A="}

EnvValues == {"1", "2", "=1"}

ConfigLinks ==
    {[Namespace |-> "", Name |-> "db", Alias |-> "database"],
     [Namespace |-> "prod", Name |-> "redis", Alias |-> "cache"]}

ConfigVolumesFrom ==
    {[Namespace |-> "", Name |-> "data"], [Namespace |-> "prod", Name |-> "logs"]}

ConfigUlimits ==
    {[Name |-> "nofile", Soft |-> 1024, Hard |-> 2048],
     [Name |-> "nproc", Soft |-> 64, Hard |-> 128]}

Slices(S, n) == {NIL} \cup {<<s>> : s \in SeqsUpTo(S, n)}

ScalarConfigs ==
    {[ZeroConfigContainer EXCEPT
          !.Image = r.Image, !.Hostname = r.Hostname, !.Domainname = r.Domainname,
          !.Workdir = r.Workdir, !.User = r.User, !.CpusetCpus = r.CpusetCpus,
          !.CpuShares = r.CpuShares, !.NetworkDisabled = r.NetworkDisabled,
          !.Net = r.Net, !.Pid = r.Pid, !.Privileged = r.Privileged,
          !.PublishAllPorts = r.PublishAllPorts] :
      r \in [Image : {NIL, <<"nginx:1.9">>}, Hostname : {NIL, <<"web">>},
             Domainname : {NIL, <<"example.com">>}, Workdir : {NIL, <<"/app">>},
             User : {NIL, <<"www">>}, CpusetCpus : {NIL, <<"0-1">>},
             CpuShares : {NIL, <<512>>}, NetworkDisabled : {NIL, <<TRUE>>},
             Net : {NIL, <<"bridge">>}, Pid : {NIL, <<"host">>},
             Privileged : {NIL, <<TRUE>>}, PublishAllPorts : {NIL, <<TRUE>>}]}

\* A scalar that is present and holds its type's zero value.
ZeroValuedConfigs ==
    {[ZeroConfigContainer EXCEPT ![f] = <<"">>] :
        f \in {"Image", "Hostname", "Domainname", "Workdir", "User", "CpusetCpus",
               "Net", "Pid"}}
    \cup {[ZeroConfigContainer EXCEPT !.CpuShares = <<0>>]}
    \cup {[ZeroConfigContainer EXCEPT ![f] = <<FALSE>>] :
        f \in {"NetworkDisabled", "Privileged", "PublishAllPorts"}}

MemoryConfigs ==
    {[ZeroConfigContainer EXCEPT !.Memory = r.Memory, !.MemorySwap = r.MemorySwap,
                                 !.Restart = r.Restart] :
      r \in [Memory : {NIL, <<0>>, <<104857600>>},
             MemorySwap : {NIL, <<-1>>, <<209715200>>},
             Restart : {NIL, <<[Name |-> "always", MaximumRetryCount |-> 0]>>,
                        <<[Name |-> "on-failure", MaximumRetryCount |-> 5]>>}]}

VolumeConfigs ==
    {[ZeroConfigContainer EXCEPT !.Volumes = v] : v \in Slices(VolumeStrings, MaxVolumes)}

PortConfigs ==
    {[ZeroConfigContainer EXCEPT !.Ports = v] : v \in Slices(ConfigPorts, MaxPorts)}

EnvConfigs ==
    {[ZeroConfigContainer EXCEPT !.Env = e] :
        e \in {NIL} \cup {<<f>> : f \in UNION {[K -> EnvValues] : K \in SUBSET EnvKeys}}}

ListConfigs ==
    {[ZeroConfigContainer EXCEPT !.Links = r.Links, !.VolumesFrom = r.VolumesFrom,
                                 !.Ulimits = r.Ulimits] :
      r \in [Links : Slices(ConfigLinks, MaxList),
             VolumesFrom : Slices(ConfigVolumesFrom, MaxList),
             Ulimits : Slices(ConfigUlimits, MaxList)]}

OtherConfigs ==
    {[ZeroConfigContainer EXCEPT !.Cmd = r.Cmd, !.Entrypoint = r.Entrypoint,
                                 !.Expose = r.Expose, !.Dns = r.Dns,
                                 !.AddHost = r.AddHost, !.Labels = r.Labels] :
      r \in [Cmd : {NIL, <<[Parts |-> <<<<"sh", "-c">>>>]>>},
             Entrypoint : {NIL, <<<<"/bin/init">>>>},
             Expose : {NIL, <<<<>>>>, <<<<"80/tcp", "80/tcp", "53/udp">>>>},
             Dns : {NIL, <<<<"8.8.8.8">>>>},
             AddHost : {NIL, <<<<"db:10.0.0.2">>>>},
             Labels : {NIL, <<1>>}]}

Configs ==
    ScalarConfigs \cup ZeroValuedConfigs \cup MemoryConfigs \cup VolumeConfigs
    \cup PortConfigs \cup EnvConfigs \cup ListConfigs \cup OtherConfigs

DockerState ==
    [Running |-> TRUE, Paused |-> FALSE, Restarting |-> FALSE, OOMKilled |-> FALSE,
     Pid |-> 4242, ExitCode |-> 0, Error |-> "", StartedAt |-> "2015-06-01T10:00:00Z",
     FinishedAt |-> ""]

\* A container as docker inspect reports it; labels is NIL or a heap address.
DockerContainer(name, labels) ==
    [ID |-> "4fa6e0f0c678", Name |-> name, Image |-> "sha256:0d4b",
     Created |-> "2015-06-01T09:59:58Z", State |-> DockerState,
     Config |-> [Image |-> "nginx:1.9", Labels |-> labels]]

-----------------------------------------------------------------------------
\* The builders applied to a ConfigContainer

Init ==
    /\ config \in Configs
    /\ apiConfig = NIL
    /\ hostConfig = NIL
    /\ apiContainer = DockerContainer("/web", NIL)
    /\ heap = <<[app |-> "web"]>>
    /\ extracted = NIL
    /\ assembled = NIL

EnvKeysOf(c) == IF c.Env = NIL THEN {} ELSE DOMAIN c.Env[1]

\* apiConfig := config.GetApiConfig(); range visits the keys of config.Env
\* in an order the runtime chooses.
CallGetApiConfig ==
    /\ apiConfig = NIL
    /\ \E keys \in SetToSeqs(EnvKeysOf(config)) :
           apiConfig' = <<GetApiConfig(config, keys)>>
    /\ UNCHANGED <<config, hostConfig, apiContainer, heap, extracted, assembled>>

\* hostConfig := config.GetApiHostConfig()
CallGetApiHostConfig ==
    /\ hostConfig = NIL
    /\ hostConfig' = <<GetApiHostConfig(config)>>
    /\ UNCHANGED <<config, apiConfig, apiContainer, heap, extracted, assembled>>

Next == CallGetApiConfig \/ CallGetApiHostConfig

Spec == Init /\ [][Next]_vars

-----------------------------------------------------------------------------
\* Properties of the builders

IsBind(volume) == Contains(volume, ":")

IsNamed(volume) == ~Contains(volume, ":")

\* The set a nil or non-nil map[string]struct{} holds.
SetOf(m) == IF m = NIL THEN {} ELSE m[1]

Count(seq, x) == Cardinality({i \in 1..Len(seq) : seq[i] = x})

\* C1: GetApiConfig and GetApiHostConfig split config.Volumes by the presence
\* of ":": Volumes is exactly the set of entries without ":", Binds exactly
\* the subsequence of entries with ":" in declared order, every entry lands in
\* exactly one of the two, and a field whose filtered result is empty stays nil.
C1_VolumesPartition ==
    LET volumes == Elems(config.Volumes)
        named == {volumes[i] : i \in {j \in 1..Len(volumes) : IsNamed(volumes[j])}}
        binds == SelectSeq(volumes, IsBind)
    IN  /\ apiConfig # NIL =>
               apiConfig[1].Volumes = IF named = {} THEN NIL ELSE <<named>>
        /\ hostConfig # NIL =>
               hostConfig[1].Binds = IF binds = <<>> THEN NIL ELSE <<binds>>
        /\ (apiConfig # NIL /\ hostConfig # NIL) =>
               \A i \in 1..Len(volumes) :
                   (volumes[i] \in SetOf(apiConfig[1].Volumes))
                       # (volumes[i] \in Range(Elems(hostConfig[1].Binds)))

C1_Witness ==
    /\ apiConfig # NIL /\ hostConfig # NIL
    /\ config.Volumes = <<<<"/host:/data", "/data", "/etc/app:/etc/app:ro">>>>
    /\ apiConfig[1].Volumes = <<{"/data"}>>
    /\ hostConfig[1].Binds = <<<<"/host:/data", "/etc/app:/etc/app:ro">>>>

RECURSIVE BindingsFor(_, _)
BindingsFor(ports, key) ==
    IF ports = <<>> THEN <<>>
    ELSE (IF Head(ports).Port = key
          THEN <<[HostIP |-> Head(ports).HostIp, HostPort |-> Head(ports).HostPort]>>
          ELSE <<>>) \o BindingsFor(Tail(ports), key)

RECURSIVE TotalBindings(_, _)
TotalBindings(m, keys) ==
    IF keys = {} THEN 0
    ELSE LET k == CHOOSE x \in keys : TRUE
         IN  Len(m[k]) + TotalBindings(m, keys \ {k})

\* C2: PortBindings groups config.Ports by Port: each key holds the
\* {HostIP, HostPort} pairs of the declared entries with that key, in declared
\* order and with duplicates, so the bindings of all keys number Len(Ports).
C2_PortBindingsAdditive ==
    hostConfig # NIL =>
        LET ports == Elems(config.Ports)
            pb == hostConfig[1].PortBindings
        IN  IF ports = <<>> THEN pb = NIL
            ELSE /\ pb # NIL
                 /\ DOMAIN pb[1] = {ports[i].Port : i \in 1..Len(ports)}
                 /\ \A key \in DOMAIN pb[1] : pb[1][key] = BindingsFor(ports, key)
                 /\ TotalBindings(pb[1], DOMAIN pb[1]) = Len(ports)

C2_Witness ==
    /\ hostConfig # NIL
    /\ config.Ports =
           <<<<[Port |-> "80/tcp", HostIp |-> "0.0.0.0", HostPort |-> "8080"],
               [Port |-> "53/udp", HostIp |-> "0.0.0.0", HostPort |-> "8080"],
               [Port |-> "80/tcp", HostIp |-> "0.0.0.0", HostPort |-> "8081"]>>>>
    /\ hostConfig[1].PortBindings[1]["80/tcp"] =
           <<[HostIP |-> "0.0.0.0", HostPort |-> "8080"],
             [HostIP |-> "0.0.0.0", HostPort |-> "8081"]>>

\* An output field is the scalar's value when it is set and otherwise zero,
\* the value of a field never assigned.
Scalar(p, out, zero) == out = IF p = NIL THEN zero ELSE p[1]

\* C5: each optional scalar of the ConfigContainer is copied to its output
\* field when set and leaves that field unset when nil.
C5_OptionalScalars ==
    /\ apiConfig # NIL =>
           /\ ~apiConfig[1].panic
           /\ Scalar(config.Image, apiConfig[1].Image, "")
           /\ Scalar(config.Hostname, apiConfig[1].Hostname, "")
           /\ Scalar(config.Domainname, apiConfig[1].Domainname, "")
           /\ Scalar(config.Workdir, apiConfig[1].WorkingDir, "")
           /\ Scalar(config.User, apiConfig[1].User, "")
           /\ Scalar(config.CpusetCpus, apiConfig[1].CPUSet, "")
           /\ Scalar(config.CpuShares, apiConfig[1].CPUShares, 0)
           /\ Scalar(config.NetworkDisabled, apiConfig[1].NetworkDisabled, FALSE)
    /\ hostConfig # NIL =>
           /\ ~hostConfig[1].panic
           /\ Scalar(config.Net, hostConfig[1].NetworkMode, "")
           /\ Scalar(config.Pid, hostConfig[1].PidMode, "")
           /\ Scalar(config.CpusetCpus, hostConfig[1].CPUSet, "")
           /\ Scalar(config.Privileged, hostConfig[1].Privileged, FALSE)
           /\ Scalar(config.PublishAllPorts, hostConfig[1].PublishAllPorts, FALSE)

C5_Witness ==
    /\ apiConfig # NIL /\ hostConfig # NIL
    /\ config.Hostname = NIL /\ config.Pid = NIL
    /\ config.Image = <<"nginx:1.9">> /\ config.Net = <<"bridge">>
    /\ config.CpusetCpus = <<"0-1">> /\ config.Privileged = <<TRUE>>
    /\ apiConfig[1].Hostname = "" /\ apiConfig[1].Image = "nginx:1.9"
    /\ hostConfig[1].PidMode = "" /\ hostConfig[1].NetworkMode = "bridge"

\* C6: Memory and MemorySwap are the same in both outputs, the byte count of
\* the quantity when it is set and the untouched field when it is nil.
C6_MemoryAgrees ==
    /\ apiConfig # NIL =>
           /\ Scalar(config.Memory, apiConfig[1].Memory, 0)
           /\ Scalar(config.MemorySwap, apiConfig[1].MemorySwap, 0)
    /\ hostConfig # NIL =>
           /\ Scalar(config.Memory, hostConfig[1].Memory, 0)
           /\ Scalar(config.MemorySwap, hostConfig[1].MemorySwap, 0)
    /\ (apiConfig # NIL /\ hostConfig # NIL) =>
           /\ hostConfig[1].Memory = apiConfig[1].Memory
           /\ hostConfig[1].MemorySwap = apiConfig[1].MemorySwap

C6_Witness ==
    /\ apiConfig # NIL /\ hostConfig # NIL
    /\ config.Memory = <<104857600>> /\ config.MemorySwap = NIL
    /\ hostConfig[1].Memory = 104857600 /\ apiConfig[1].Memory = 104857600
    /\ hostConfig[1].MemorySwap = 0 /\ apiConfig[1].MemorySwap = 0

\* C7: GetApiConfig and GetApiHostConfig return a structure for every
\* ConfigContainer, the one with every optional field nil included: a call not
\* yet made returns without a panic under every iteration order, and a call
\* made has not panicked.
C7_BuildersTotal ==
    /\ apiConfig = NIL =>
           /\ SetToSeqs(EnvKeysOf(config)) # {}
           /\ \A keys \in SetToSeqs(EnvKeysOf(config)) : ~GetApiConfig(config, keys).panic
    /\ hostConfig = NIL => ~GetApiHostConfig(config).panic
    /\ apiConfig # NIL => ~apiConfig[1].panic
    /\ hostConfig # NIL => ~hostConfig[1].panic

C7_Witness ==
    /\ config = ZeroConfigContainer
    /\ apiConfig # NIL /\ ~apiConfig[1].panic
    /\ hostConfig # NIL /\ ~hostConfig[1].panic

\* C8: Env holds one "KEY=VALUE" string per entry of config.Env and nothing
\* else, whatever the order, and is nil when config.Env is nil.
C8_EnvRendered ==
    apiConfig # NIL =>
        IF config.Env = NIL THEN apiConfig[1].Env = NIL
        ELSE LET env == config.Env[1]
                 out == Elems(apiConfig[1].Env)
             IN  /\ apiConfig[1].Env # NIL
                 /\ Len(out) = Cardinality(DOMAIN env)
                 /\ \A s \in Range(out) \cup {k \o "=" \o env[k] : k \in DOMAIN env} :
                        Count(out, s) = Cardinality({k \in DOMAIN env : k \o "=" \o env[k] = s})

C8_Witness ==
    /\ apiConfig # NIL
    /\ config.Env = <<[k \in {"A", "B", "A="} |->
                          IF k = "A" THEN "=1" ELSE IF k = "B" THEN "2" ELSE "1"]>>
    /\ apiConfig[1].Env = <<<<"B=2", "A==1", "A==1">>>>

\* C9: Links, VolumesFrom and Ulimits are mapped element by element: the
\* output has the length of the source, its i-th element renders the i-th
\* source element (for a ulimit the same Name, Soft and Hard), and the field
\* is nil when the source is empty or nil.
C9_ListsElementwise ==
    hostConfig # NIL =>
        LET links == Elems(config.Links)
            volumesFrom == Elems(config.VolumesFrom)
            ulimits == Elems(config.Ulimits)
            out == hostConfig[1]
        IN  /\ IF links = <<>> THEN out.Links = NIL
               ELSE /\ out.Links # NIL
                    /\ Len(out.Links[1]) = Len(links)
                    /\ \A i \in 1..Len(links) : out.Links[1][i] = LinkString(links[i])
            /\ IF volumesFrom = <<>> THEN out.VolumesFrom = NIL
               ELSE /\ out.VolumesFrom # NIL
                    /\ Len(out.VolumesFrom[1]) = Len(volumesFrom)
                    /\ \A i \in 1..Len(volumesFrom) :
                           out.VolumesFrom[1][i] = ContainerNameString(volumesFrom[i])
            /\ IF ulimits = <<>> THEN out.Ulimits = NIL
               ELSE /\ out.Ulimits # NIL
                    /\ Len(out.Ulimits[1]) = Len(ulimits)
                    /\ \A i \in 1..Len(ulimits) : out.Ulimits[1][i] = ulimits[i]

C9_Witness ==
    /\ hostConfig # NIL
    /\ config.Ulimits = <<<<[Name |-> "nofile", Soft |-> 1024, Hard |-> 2048],
                            [Name |-> "nproc", Soft |-> 64, Hard |-> 128]>>>>
    /\ hostConfig[1].Ulimits = config.Ulimits
    /\ config.Links = <<<<>>>> /\ hostConfig[1].Links = NIL
    /\ Len(Elems(config.VolumesFrom)) = 2
    /\ hostConfig[1].VolumesFrom = <<<<"prod.logs", "data">>>>

-----------------------------------------------------------------------------
\* The containers the extraction is applied to

YamlLabelEntries ==
    {<<"rocker-compose-id", "7f3a">>, <<"rocker-compose-", "x">>,
     <<"rocker-compose", "y">>, <<"app", "web">>}

RECURSIVE YamlLabelLines(_)
YamlLabelLines(entries) ==
    IF entries = <<>> THEN ""
    ELSE "  " \o Head(entries)[1] \o ": " \o Head(entries)[2] \o "\n"
         \o YamlLabelLines(Tail(entries))

\* The document a ConfigContainer with this image and these labels is stored as.
YamlText(image, labels) ==
    (IF image # NIL THEN "image: " \o image[1] \o "\n" ELSE "")
    \o (IF labels # NIL THEN "labels:\n" \o YamlLabelLines(labels[1]) ELSE "")

WellFormedYaml ==
    {YamlText(image, labels) :
        image \in {NIL, <<"nginx:1.9">>}, labels \in Slices(YamlLabelEntries, MaxLabels)}
    \cup {"hostname: web\nkill_timeout: 5\n"}

MalformedYaml ==
    {"image nginx:1.9\n", "image: nginx:1.9\n  app: web\n", "labels:\n  app web\n"}

\* The label maps of a container: without the reserved label, and with it,
\* alone or beside other labels.
DockerLabels ==
    {<<>>, [app |-> "web"]}
    \cup {(ConfigLabel :> y) : y \in WellFormedYaml \cup MalformedYaml}
    \cup {(ConfigLabel :> y) @@ ("rocker-compose-id" :> "7f3a") @@ ("app" :> "web") :
            y \in WellFormedYaml \cup MalformedYaml}

ContainerNames == {"/web", "/prod.db"}

InitInspect ==
    /\ config = ZeroConfigContainer
    /\ apiConfig = NIL
    /\ hostConfig = NIL
    /\ extracted = NIL
    /\ assembled = NIL
    /\ \E name \in ContainerNames :
           \/ apiContainer = DockerContainer(name, NIL) /\ heap = <<>>
           \/ \E labels \in DockerLabels :
                  apiContainer = DockerContainer(name, <<1>>) /\ heap = <<labels>>

\* config, err := NewContainerConfigFromDocker(apiContainer)
CallNewContainerConfigFromDocker ==
    /\ extracted = NIL
    /\ LET r == NewContainerConfigFromDocker(apiContainer, heap)
       IN  /\ extracted' = <<[ret |-> r.ret, err |-> r.err]>>
           /\ heap' = r.heap
    /\ UNCHANGED <<config, apiConfig, hostConfig, apiContainer, assembled>>

\* container, err := NewContainerFromDocker(apiContainer)
CallNewContainerFromDocker ==
    /\ assembled = NIL
    /\ LET r == NewContainerFromDocker(apiContainer, heap)
       IN  /\ assembled' = <<[ret |-> r.ret, err |-> r.err]>>
           /\ heap' = r.heap
    /\ UNCHANGED <<config, apiConfig, hostConfig, apiContainer, extracted>>

NextInspect == CallNewContainerConfigFromDocker \/ CallNewContainerFromDocker

SpecInspect == InitInspect /\ [][NextInspect]_vars

-----------------------------------------------------------------------------
\* Properties of the extraction

\* The labels of the container, as docker reports them.
ContainerLabels == LabelsOf(heap, apiContainer.Config.Labels)

\* C3: a successful NewContainerConfigFromDocker returns the ConfigContainer
\* the "rocker-compose-config" label decodes to, less the label keys that start
\* with "rocker-compose-": none of them is left, every other label keeps its
\* value and every other field is as decoded.
C3_RoundTrip ==
    (extracted # NIL /\ extracted[1].err = NIL) =>
        LET payload == Unmarshal(ContainerLabels[ConfigLabel], ZeroConfigContainer, <<>>)
            decoded == LabelsOf(payload.heap, payload.container.Labels)
            ret == extracted[1].ret[1]
            labels == LabelsOf(heap, ret.Labels)
        IN  /\ [ret EXCEPT !.Labels = NIL] = [payload.container EXCEPT !.Labels = NIL]
            /\ (ret.Labels = NIL) <=> (payload.container.Labels = NIL)
            /\ \A k \in DOMAIN labels : ~HasPrefix(k, "rocker-compose-")
            /\ \A k \in DOMAIN decoded :
                   ~HasPrefix(k, "rocker-compose-") =>
                       k \in DOMAIN labels /\ labels[k] = decoded[k]
            /\ \A k \in DOMAIN labels : k \in DOMAIN decoded

C3_Witness ==
    /\ extracted # NIL /\ extracted[1].err = NIL
    /\ ContainerLabels[ConfigLabel] =
           "image: nginx:1.9\nlabels:\n  rocker-compose-id: 7f3a\n  app: web\n"
    /\ extracted[1].ret[1].Image = <<"nginx:1.9">>
    /\ LabelsOf(heap, extracted[1].ret[1].Labels) = [app |-> "web"]

\* What a call on the container must return.
Outcome(r) ==
    IF ConfigLabel \notin DOMAIN ContainerLabels
    THEN r.ret = NIL /\ r.err = <<ErrConfigMissing>>
    ELSE LET cause == Unmarshal(ContainerLabels[ConfigLabel], ZeroConfigContainer, <<>>).err
         IN  IF cause # NIL
             THEN /\ r.ret = NIL
                  /\ r.err # NIL
                  /\ r.err[1] # ErrConfigMissing
                  /\ Contains(r.err[1], "Failed to parse YAML config")
                  /\ Contains(r.err[1], apiContainer.Name)
                  /\ Contains(r.err[1], cause[1])
             ELSE r.err = NIL /\ r.ret # NIL

\* C4: a container without the "rocker-compose-config" label yields the
\* missing-label error, one whose label does not decode yields the parse error
\* with the container's name and the decoder's error, in both cases with no
\* ConfigContainer and no Container; NewContainerFromDocker fails exactly when
\* NewContainerConfigFromDocker does, with the same error.
C4_FailuresWhole ==
    /\ extracted # NIL => Outcome(extracted[1])
    /\ assembled # NIL => Outcome(assembled[1])
    /\ (extracted # NIL /\ assembled # NIL) => assembled[1].err = extracted[1].err

C4_Witness ==
    /\ extracted # NIL /\ assembled # NIL
    /\ apiContainer.Name = "/prod.db"
    /\ ConfigLabel \in DOMAIN ContainerLabels
    /\ ContainerLabels[ConfigLabel] = "labels:\n  app web\n"
    /\ extracted[1].ret = NIL /\ assembled[1].ret = NIL
    /\ assembled[1].err =
           <<"Failed to parse YAML config for container /prod.db, error: yaml: line 2: could not find expected ':'">>

\* C10: a call of NewContainerConfigFromDocker or NewContainerFromDocker,
\* failing or not, leaves the container and its label map as they were, the
\* "rocker-compose-" keys included.
C10_DescriptorUnchanged ==
    [][/\ apiContainer' = apiContainer
       /\ LabelsOf(heap', apiContainer'.Config.Labels)
              = LabelsOf(heap, apiContainer.Config.Labels)]_vars

C10_Witness ==
    /\ extracted # NIL /\ extracted[1].err = NIL
    /\ DOMAIN ContainerLabels = {ConfigLabel, "rocker-compose-id", "app"}
    /\ ContainerLabels[ConfigLabel] =
           "labels:\n  rocker-compose-id: 7f3a\n  rocker-compose-: x\n"
    /\ ContainerLabels["rocker-compose-id"] = "7f3a"
    /\ extracted[1].ret[1].Labels # NIL
    /\ DOMAIN LabelsOf(heap, extracted[1].ret[1].Labels) = {}

====
